---- MODULE Spec2Model ----
(***************************************************************************)
(* The bounded-concurrency batch runners of the repository:                *)
(*   make-mp3.py   a polling dispatcher over a list of Popen objects,      *)
(*   tifftopdf.py  a ThreadPoolExecutor whose results are consumed inside  *)
(*                 the with block,                                         *)
(*   vid2mkv.py    a ThreadPoolExecutor whose results are consumed after   *)
(*                 the with block.                                         *)
(* One run of the model is one run of one of the three programs (prog).    *)
(***************************************************************************)
EXTENDS Integers, Sequences, FiniteSets, TLC

\* ------------------------------------------------------------------ bounds
\* Longest track listing / longest list of file arguments.
MaxTracks == 3
\* Largest value cpu_count() returns.
MaxProcs == 2
MaxFiles == 2
MaxWorkers == 2

VARIABLES
    prog,        \* which script runs: "mp3", "tiff" or "vid"
    pc,          \* position of the main thread
    exitstatus,  \* None while running, else the exit status of the interpreter
    exc,         \* "none", or the exception that left main uncaught
    precond,     \* "unchecked", "ok" or "failed": what checkfor found
    \* make-mp3
    maxprocs,    \* cpu_count()
    tracks,      \* the list trackdata returned
    ti,          \* number of tracks the for loop of main has taken
    procs,       \* the active list: <<[fn, pr]>>, pr the index of the Popen object
    popen,       \* Popen objects by launch index: what poll() returns
    it,          \* index of the list iterator of manageprocs
    ret,         \* the loop of main that called manageprocs
    printed,     \* per Popen object, the exit codes manageprocs printed for it
    notracks,    \* 'No tracks found.' was printed
    failedlaunch, \* number of Popen calls that raised
    exitedatcall, \* the Popen objects of the active list that had exited
                 \* when the running call of manageprocs began
    \* tifftopdf and vid2mkv
    files,       \* args.files
    maxworkers,  \* max_workers of the ThreadPoolExecutor
    pool,        \* the executor was created
    queue,       \* work items submitted and not yet taken by a worker thread
    worker,      \* per worker thread: the item it runs, where it is, the output name
    future,      \* per item: the state of its future, its result or exception
    ri,          \* number of results main has taken from the map iterator
    reports,     \* the per-item lines main has written, in order
    doneOrder,   \* the items in the order in which their processing ended
    fate,        \* per item, what happened to its conversion
    cmds,        \* the external commands started for the items
    \* trackdata called on its own
    titelsfile,  \* the file 'titels': whether open() fails, and its lines
    disk,        \* the files that pass os.access(R_OK)
    returned     \* what the call of trackdata gave

mp3vars == <<maxprocs, tracks, ti, procs, popen, it, ret, printed, notracks, failedlaunch,
            exitedatcall>>
poolvars == <<files, maxworkers, pool, queue, worker, future, ri, reports, doneOrder, fate, cmds>>
mainvars == <<prog, pc, exitstatus, exc, precond>>
tdvars == <<titelsfile, disk, returned>>
vars == <<mainvars, mp3vars, poolvars, tdvars>>

\* ------------------------------------------------------------ text helpers
Digits == <<"0", "1", "2", "3", "4", "5", "6", "7", "8", "9">>

IsDigit(c) == \E d \in 1..10 : Digits[d] = c

DigitVal(c) == (CHOOSE d \in 1..10 : Digits[d] = c) - 1

\* Python's None, and a value that is not None, as a tuple of at most one element.
None == <<>>
Some(x) == <<x>>

\* int(s) for a token s of characters: whether it parses (else ValueError),
\* and the value.
RECURSIVE IntAcc(_, _)
IntAcc(s, acc) ==
    IF s = <<>> THEN acc
    ELSE IntAcc(Tail(s), 10 * acc + DigitVal(Head(s)))

IsInt(s) == s # <<>> /\ \A k \in 1..Len(s) : IsDigit(s[k])

int(s) == IntAcc(s, 0)

\* '{:02d}'.format(n) for n >= 0: at least two digits, zero padded.
RECURSIVE DecStr(_)
DecStr(n) ==
    IF n < 10 THEN <<Digits[n + 1]>>
    ELSE DecStr(n \div 10) \o <<Digits[(n % 10) + 1]>>

Format02d(n) == IF n < 10 THEN <<"0">> \o DecStr(n) ELSE DecStr(n)

\* ------------------------------------------------------------- make-mp3
\* The lines a 'titels' file may hold after readlines(), each line already
\* split into words, a word a tuple of characters.
AlbumLine == <<<<"A">>>>
ArtistLine == <<<<"B">>>>
TrackLines ==
    { <<>>,
      << <<"0", "1">>, <<"T">> >>,
      << <<"0", "2">>, <<"U">>, <<"V">> >>,
      << <<"x">> >> }

RECURSIVE SeqsUpTo(_, _)
SeqsUpTo(S, n) ==
    IF n = 0 THEN {<<>>}
    ELSE LET shorter == SeqsUpTo(S, n - 1)
         IN shorter \cup {Append(s, x) : s \in {t \in shorter : Len(t) = n - 1}, x \in S}

\* open() raises IOError, or readlines() gives the lines.
Titels ==
    {[ioerror |-> TRUE, lines |-> <<>>]}
      \cup {[ioerror |-> FALSE, lines |-> l] :
               l \in {<<>>, <<AlbumLine>>}
                     \cup {<<AlbumLine, ArtistLine>> \o body :
                             body \in SeqsUpTo(TrackLines, MaxTracks)}}

Returns(v) == [exc |-> "none", val |-> v]
Raises(e) == [exc |-> e, val |-> <<>>]

\* Files that may be present and readable in the working directory.
WavFiles ==
    { <<"t", "r", "a", "c", "k", "0", "1", ".", "c", "d", "d", "a", ".", "w", "a", "v">>,
      <<"t", "r", "a", "c", "k", "0", "2", ".", "c", "d", "d", "a", ".", "w", "a", "v">>,
      <<"t", "r", "a", "c", "k", "1", ".", "c", "d", "d", "a", ".", "w", "a", "v">> }

ifnameOf(num) == <<"t", "r", "a", "c", "k">> \o Format02d(num) \o <<".", "c", "d", "d", "a", ".", "w", "a", "v">>
ofnameOf(num) == <<"t", "r", "a", "c", "k">> \o Format02d(num) \o <<".", "m", "p", "3">>

\* A trackdata that takes every input file for readable.
accessAlways(ifname, readable) == TRUE

\* trackdata, line 63: os.access(ifname, os.R_OK), readable the files that
\* pass it.
access(ifname, readable) == ifname \in readable

\* The for loop of trackdata over the lines that follow the two header lines.
RECURSIVE trackloop(_, _, _, _, _)
trackloop(lines, album, artist, readable, acc) ==
    IF lines = <<>> THEN Returns(acc)
    ELSE LET words == Head(lines)
         IN IF words = <<>>
            THEN trackloop(Tail(lines), album, artist, readable, acc)
            ELSE IF ~IsInt(Head(words)) THEN Raises("ValueError")
                 ELSE LET num == int(Head(words))
                      IN IF access(ifnameOf(num), readable)
                         THEN trackloop(Tail(lines), album, artist, readable,
                                  Append(acc, [num |-> num, title |-> Tail(words),
                                               artist |-> artist, album |-> album,
                                               ifname |-> ifnameOf(num),
                                               ofname |-> ofnameOf(num)]))
                         ELSE trackloop(Tail(lines), album, artist, readable, acc)

\* trackdata(): the list of tuples, or the exception it raises.  titels is
\* what readlines() gives (or that open fails), readable the files that
\* pass os.access(R_OK).
trackdata(titels, readable) ==
    IF titels.ioerror THEN Returns(<<>>)
    ELSE IF Len(titels.lines) < 2 THEN Raises("IndexError")
    ELSE trackloop(Tail(Tail(titels.lines)), titels.lines[1], titels.lines[2],
                   readable, <<>>)

\* list.remove(x): drops the first element equal to x.
RECURSIVE remove(_, _)
remove(l, x) ==
    IF l = <<>> THEN <<>>
    ELSE IF Head(l) = x THEN Tail(l)
    ELSE <<Head(l)>> \o remove(Tail(l), x)

\* An uncaught exception ends the interpreter with a traceback, status 1.
Raise(e) ==
    /\ pc' = "crashed"
    /\ exc' = e
    /\ exitstatus' = Some(1)

\* sys.exit(n)
SysExit(n) ==
    /\ pc' = "exited"
    /\ exitstatus' = Some(n)
    /\ exc' = exc

InMp3(label) == prog = "mp3" /\ pc = label /\ UNCHANGED <<poolvars, tdvars>>

\* main, line 111: checkfor(['lame', '--help']), from the module checkfor.
Mp3Checkfor ==
    /\ InMp3("checkfor")
    /\ \E found \in BOOLEAN :
          IF found
          THEN /\ precond' = "ok"
               /\ pc' = "trackdata"
               /\ UNCHANGED <<exitstatus, exc>>
          ELSE /\ precond' = "failed"
               /\ SysExit(1)
    /\ UNCHANGED <<prog, mp3vars>>

\* main, lines 112-113: procs = []; tracks = trackdata().
Mp3Trackdata ==
    /\ InMp3("trackdata")
    /\ \E titels \in Titels, readable \in SUBSET WavFiles :
          LET r == trackdata(titels, readable)
          IN IF r.exc # "none"
             THEN /\ Raise(r.exc)
                  /\ UNCHANGED tracks
             ELSE /\ tracks' = r.val
                  /\ pc' = "iftracks"
                  /\ UNCHANGED <<exitstatus, exc>>
    /\ UNCHANGED <<prog, precond, maxprocs, ti, procs, popen, it, ret, printed,
                   notracks, failedlaunch, exitedatcall>>

\* A main that prints the message and goes on instead of leaving.
Mp3NoTracksGoesOn ==
    /\ InMp3("iftracks")
    /\ tracks = <<>>
    /\ notracks' = TRUE
    /\ pc' = "for"
    /\ UNCHANGED <<prog, exitstatus, exc, precond, maxprocs, tracks, ti, procs, popen,
                   it, ret, printed, failedlaunch, exitedatcall>>

\* main, lines 114-121: nothing to convert.
Mp3NoTracks ==
    /\ InMp3("iftracks")
    /\ tracks = <<>>
    /\ notracks' = TRUE
    /\ SysExit(1)
    /\ UNCHANGED <<prog, precond, maxprocs, tracks, ti, procs, popen, it, ret,
                   printed, failedlaunch, exitedatcall>>

\* main, lines 114 and 122: tracks found; maxprocs = cpu_count().
Mp3HaveTracks ==
    /\ InMp3("iftracks")
    /\ tracks # <<>>
    /\ pc' = "for"
    /\ UNCHANGED <<prog, exitstatus, exc, precond, mp3vars>>

\* main, line 123: the for loop takes the next track, or ends.
Mp3For ==
    /\ InMp3("for")
    /\ pc' = IF ti < Len(tracks) THEN "while" ELSE "drain"
    /\ UNCHANGED <<prog, exitstatus, exc, precond, mp3vars>>

\* The Popen objects of the active list whose process has exited.
ExitedNow == {procs[k].pr : k \in {m \in 1..Len(procs) : popen[procs[m].pr] # None}}

\* A dispatcher that goes polling as soon as anything is active.
MustWaitWhenActive == Len(procs) > 0

\* main, line 124: the condition of the while loop.
MustWait == Len(procs) = maxprocs

\* main, lines 124-125: the active list is full, call manageprocs.
Mp3Wait ==
    /\ InMp3("while")
    /\ MustWait
    /\ pc' = "manageprocs"
    /\ it' = 0
    /\ exitedatcall' = ExitedNow
    /\ ret' = "while"
    /\ UNCHANGED <<prog, exitstatus, exc, precond, maxprocs, tracks, ti, procs,
                   popen, printed, notracks, failedlaunch>>

\* A dispatcher that waits only once the limit is exceeded.
MayLaunchLate == Len(procs) <= maxprocs

\* The guard of line 124 under which main goes on to line 126.
MayLaunch == Len(procs) # maxprocs

\* A loop that takes the tracks from the end of the list.
NextTrackFromEnd == Len(tracks) - ti

\* main, line 123: the position in tracks of the track the for loop holds.
NextTrack == ti + 1

\* startmp3 and line 126: Popen starts lame and the pair is appended.
Mp3Launch ==
    /\ InMp3("while")
    /\ MayLaunch
    /\ LET track == tracks[NextTrack]
       IN /\ popen' = Append(popen, None)
          /\ printed' = Append(printed, <<>>)
          /\ procs' = Append(procs, [fn |-> track.ofname, pr |-> Len(popen) + 1])
    /\ ti' = ti + 1
    /\ pc' = "for"
    /\ UNCHANGED <<prog, exitstatus, exc, precond, maxprocs, tracks, it, ret,
                   notracks, failedlaunch, exitedatcall>>

\* startmp3, line 87: Popen raises OSError; nothing in startmp3 or main
\* catches it.
Mp3LaunchFails ==
    /\ InMp3("while")
    /\ MayLaunch
    /\ failedlaunch' = failedlaunch + 1
    /\ Raise("OSError")
    /\ UNCHANGED <<prog, precond, maxprocs, tracks, ti, procs, popen, it, ret,
                   printed, notracks, exitedatcall>>

\* A manageprocs that removes an ended entry and prints nothing.
ReapSilently(e) ==
    IF popen[e.pr] # None
    THEN /\ procs' = remove(procs, e)
         /\ UNCHANGED printed
    ELSE UNCHANGED <<procs, printed>>

\* What manageprocs does with the entry its iterator yields: poll(), and
\* when the process has ended, remove the entry and print the outcome.
Reap(e) ==
    IF popen[e.pr] # None
    THEN /\ procs' = remove(procs, e)
         /\ printed' = [printed EXCEPT ![e.pr] = @ \o popen[e.pr]]
    ELSE UNCHANGED <<procs, printed>>

\* manageprocs, lines 96-105: one round of 'for it in proclist'.  The list
\* iterator yields proclist[it] and advances, whatever the body removes.
ManageprocsNext ==
    /\ InMp3("manageprocs")
    /\ it < Len(procs)
    /\ Reap(procs[it + 1])
    /\ it' = it + 1
    /\ UNCHANGED <<mainvars, maxprocs, tracks, ti, popen, ret, notracks, failedlaunch,
                   exitedatcall>>

\* manageprocs, lines 96 and 106: the iterator is exhausted; sleep, return.
ManageprocsReturn ==
    /\ InMp3("manageprocs")
    /\ it >= Len(procs)
    /\ pc' = ret
    /\ exitedatcall' = {}
    /\ UNCHANGED <<prog, exitstatus, exc, precond, maxprocs, tracks, ti, procs, popen,
                   it, ret, printed, notracks, failedlaunch>>

\* main, lines 127-128: drain the active list.
Mp3Drain ==
    /\ InMp3("drain")
    /\ Len(procs) > 0
    /\ pc' = "manageprocs"
    /\ it' = 0
    /\ exitedatcall' = ExitedNow
    /\ ret' = "drain"
    /\ UNCHANGED <<prog, exitstatus, exc, precond, maxprocs, tracks, ti, procs,
                   popen, printed, notracks, failedlaunch>>

\* main returns: the interpreter exits with status 0.
Mp3Done ==
    /\ InMp3("drain")
    /\ Len(procs) = 0
    /\ pc' = "done"
    /\ exitstatus' = Some(0)
    /\ UNCHANGED <<prog, exc, precond, mp3vars>>

\* The environment: a running lame process exits with some code.
ExitCodes == {0, 1}

LameExit(p) ==
    /\ prog = "mp3"
    /\ UNCHANGED <<poolvars, tdvars>>
    /\ p \in 1..Len(popen)
    /\ popen[p] = None
    /\ \E code \in ExitCodes : popen' = [popen EXCEPT ![p] = Some(code)]
    /\ UNCHANGED <<mainvars, maxprocs, tracks, ti, procs, it, ret, printed,
                   notracks, failedlaunch, exitedatcall>>

LameExits == \E p \in 1..MaxTracks : LameExit(p)

\* ------------------------------------------------- tifftopdf and vid2mkv
UpperCase == <<"A", "B", "C", "D", "E", "F", "G", "H", "I", "J", "K", "L", "M", "N", "O", "P", "Q", "R", "S", "T", "U", "V", "W", "X", "Y", "Z">>
LowerCase == <<"a", "b", "c", "d", "e", "f", "g", "h", "i", "j", "k", "l", "m", "n", "o", "p", "q", "r", "s", "t", "u", "v", "w", "x", "y", "z">>

\* str.lower(), character by character.
lowerChar(c) ==
    IF \E k \in 1..26 : UpperCase[k] = c
    THEN LowerCase[CHOOSE k \in 1..26 : UpperCase[k] = c]
    ELSE c

lower(s) == [k \in 1..Len(s) |-> lowerChar(s[k])]

\* str.rfind(c): the last position of c, 0 when there is none.
rfind(s, c) ==
    IF \E k \in 1..Len(s) : s[k] = c
    THEN CHOOSE k \in 1..Len(s) : s[k] = c /\ \A m \in (k + 1)..Len(s) : s[m] # c
    ELSE 0

\* os.path.splitext: the extension starts at the last dot of the last path
\* component, unless only dots come before it in that component.
splitext(p) ==
    LET sep == rfind(p, "/")
        dot == rfind(p, ".")
    IN IF dot > sep /\ \E k \in (sep + 1)..(dot - 1) : p[k] # "."
       THEN <<SubSeq(p, 1, dot - 1), SubSeq(p, dot, Len(p))>>
       ELSE <<p, <<>>>>

endswith(s, suffix) ==
    /\ Len(s) >= Len(suffix)
    /\ SubSeq(s, Len(s) - Len(suffix) + 1, Len(s)) = suffix

\* re.sub('\.tif{1,2}?$', '.pdf', fname, flags=re.IGNORECASE)
resub(fname) ==
    LET low == lower(fname)
        n == IF endswith(low, <<".", "t", "i", "f", "f">>) THEN 5
             ELSE IF endswith(low, <<".", "t", "i", "f">>) THEN 4
             ELSE 0
    IN IF n = 0 THEN fname
       ELSE SubSeq(fname, 1, Len(fname) - n) \o <<".", "p", "d", "f">>

\* runencoder, lines 100-101.
known ==
    { <<".", "m", "p", "4">>,
      <<".", "a", "v", "i">>,
      <<".", "w", "m", "v">>,
      <<".", "f", "l", "v">>,
      <<".", "m", "p", "g">>,
      <<".", "m", "p", "e", "g">>,
      <<".", "m", "o", "v">>,
      <<".", "o", "g", "v">>,
      <<".", "m", "k", "v">>,
      <<".", "w", "e", "b", "m">> }

\* runencoder, line 102: the extension is one of the known ones.
knownext(fname) == lower(splitext(fname)[2]) \in known

\* runencoder, line 106.
ofnOf(fname) == splitext(fname)[1] \o <<".", "m", "k", "v">>

\* File arguments of the two programs.
VidNames ==
    { <<"a", ".", "m", "p", "4">>,
      <<"a", ".", "m", "k", "v">>,
      <<"b", ".", "A", "V", "I">>,
      <<"b", ".", "t", "x", "t">> }

TiffNames ==
    { <<"a", ".", "t", "i", "f">>,
      <<"b", ".", "T", "I", "F", "F">>,
      <<"c", ".", "t", "x", "t">> }

\* What tiffinfo may write, split at white space as txt.split() does.
TokWidth == <<"W", "i", "d", "t", "h", ":">>
TokResolution == <<"R", "e", "s", "o", "l", "u", "t", "i", "o", "n", ":">>
TokImage == <<"I", "m", "a", "g", "e">>
TokLength == <<"L", "e", "n", "g", "t", "h", ":">>
TokUnit == <<"p", "i", "x", "e", "l", "s", "/", "i", "n", "c", "h">>

TiffinfoOutputs ==
    { <<TokImage, TokWidth, <<"8">>, TokImage, TokLength, <<"6">>,
        TokResolution, <<"7", "2", ",">>, <<"7", "2">>, TokUnit>>,
      <<TokImage, TokWidth, <<"8">>, TokImage, TokLength, <<"6">>>>,
      <<TokImage, TokWidth, <<"8">>, TokImage, TokLength, <<"6">>,
        TokResolution, <<"0", ",">>, <<"0">>, TokUnit>>,
      <<TokImage, TokWidth, <<"8">>, TokImage, TokLength, <<"6">>,
        TokResolution, <<"x", ",">>, <<"7", "2">>, TokUnit>>,
      <<TokImage, TokWidth, <<"8">>, TokImage, TokLength, <<"6">>, TokResolution>>,
      <<TokImage, TokLength, <<"6">>>>,
      <<TokImage, TokWidth, <<"x">>, TokImage, TokLength, <<"6">>>>,
      <<TokImage, TokWidth, <<"8">>>>,
      <<>> }

\* list.index(x): the first position of x, 0 when there is none.
index(l, x) ==
    IF \E k \in 1..Len(l) : l[k] = x
    THEN CHOOSE k \in 1..Len(l) : l[k] = x /\ \A m \in 1..(k - 1) : l[m] # x
    ELSE 0

\* float(tok) of the tokens above: a run of digits converts, anything else
\* raises ValueError.
isfloat(tok) == IsInt(tok)
float(tok) == int(tok)

\* tiffconv, lines 115-120: the resolution, None when it is not given or
\* does not convert; an IndexError is not caught here.
resolution(txt) ==
    LET i == index(txt, TokResolution)
    IN IF i = 0 THEN Returns(None)
       ELSE IF i + 1 > Len(txt) THEN Raises("IndexError")
       ELSE IF ~isfloat(SubSeq(txt[i + 1], 1, Len(txt[i + 1]) - 1)) THEN Returns(None)
       ELSE IF i + 2 > Len(txt) THEN Raises("IndexError")
       ELSE IF ~isfloat(txt[i + 2]) THEN Returns(None)
       ELSE Returns(Some(float(SubSeq(txt[i + 1], 1, Len(txt[i + 1]) - 1))))

\* tiffconv, lines 109-120: what the output of tiffinfo gives: the
\* exception raised, or xres.
metadata(txt) ==
    LET i == index(txt, TokWidth)
    IN IF i = 0 THEN Raises("ValueError")
       ELSE IF i + 1 > Len(txt) THEN Raises("IndexError")
       ELSE IF ~isfloat(txt[i + 1]) THEN Raises("ValueError")
       ELSE IF i + 4 > Len(txt) THEN Raises("IndexError")
       ELSE IF ~isfloat(txt[i + 4]) THEN Raises("ValueError")
       ELSE resolution(txt)

\* tiffconv, line 123: 'if xres'.
truthy(xres) == xres # None /\ xres # Some(0)

\* What subprocess.call gives checkfor: OSError, or the return code.
CallOutcomes ==
    {[oserror |-> TRUE, rc |-> 0]} \cup {[oserror |-> FALSE, rc |-> c] : c \in {0, 1, 255}}

\* checkfor: TRUE when it returns, FALSE when it ends in sys.exit(1).
checkfor(call, rv) == ~call.oserror /\ call.rc = rv

InPool(p, label) == prog = p /\ pc = label /\ UNCHANGED <<mp3vars, tdvars>>

\* A checkfor that logs the error and returns.
AfterCheckforNoExit(passes, next) ==
    /\ precond' = IF passes THEN "ok" ELSE "failed"
    /\ pc' = next
    /\ UNCHANGED <<exitstatus, exc>>

\* What main does after a call of checkfor.
AfterCheckfor(passes, next) ==
    IF passes
    THEN /\ precond' = "ok"
         /\ pc' = next
         /\ UNCHANGED <<exitstatus, exc>>
    ELSE /\ precond' = "failed"
         /\ SysExit(1)

\* tifftopdf main, line 53: checkfor('tiffinfo', 255).
TiffCheckTiffinfo ==
    /\ InPool("tiff", "checkfor")
    /\ \E call \in CallOutcomes : AfterCheckfor(checkfor(call, 255), "checkfor2")
    /\ UNCHANGED <<prog, poolvars>>

\* tifftopdf main, line 54: checkfor(['tiff2pdf', '-v']).
TiffCheckTiff2pdf ==
    /\ InPool("tiff", "checkfor2")
    /\ \E call \in CallOutcomes : AfterCheckfor(checkfor(call, 0), "pool")
    /\ UNCHANGED <<prog, poolvars>>

\* vid2mkv main, line 50: checkfor(['ffmpeg', '-version']).
VidCheckFfmpeg ==
    /\ InPool("vid", "checkfor")
    /\ \E call \in CallOutcomes : AfterCheckfor(checkfor(call, 0), "pool")
    /\ UNCHANGED <<prog, poolvars>>

\* ThreadPoolExecutor(max_workers=os.cpu_count()) and tp.map: every item is
\* submitted at once; map returns an iterator over the futures in the order
\* of the items.
Submit(next) ==
    /\ pool' = TRUE
    /\ queue' = [k \in 1..Len(files) |-> k]
    /\ pc' = next
    /\ UNCHANGED <<prog, exitstatus, exc, precond, files, maxworkers, worker, future,
                   ri, reports, doneOrder, fate, cmds>>

\* tifftopdf main, lines 60-61.
TiffMap == InPool("tiff", "pool") /\ Submit("results")

\* vid2mkv main, lines 53-54.
VidMap == InPool("vid", "pool") /\ Submit("shutdown")

\* An executor that starts a thread for every item.
FreeThreadAlways == TRUE

\* The executor runs at most max_workers threads: an item is taken from the
\* queue only by a thread that runs no item.
FreeThread == Cardinality(worker) < maxworkers

WorkerTake ==
    /\ prog \in {"tiff", "vid"} /\ pool
    /\ queue # <<>>
    /\ FreeThread
    /\ worker' = worker \cup {[item |-> Head(queue), at |-> "call", out |-> <<>>, a4 |-> FALSE]}
    /\ queue' = Tail(queue)
    /\ future' = [future EXCEPT ![Head(queue)].state = "running"]
    /\ UNCHANGED <<mainvars, mp3vars, tdvars, files, maxworkers, pool, ri, reports,
                   doneOrder, fate, cmds>>

\* The function of worker j returns rv: the future gets the pair (fname, rv).
Return(j, rv, what) ==
    /\ worker' = worker \ {j}
    /\ future' = [future EXCEPT ![j.item] = [state |-> "finished", rv |-> Some(rv), exc |-> "none"]]
    /\ doneOrder' = Append(doneOrder, j.item)
    /\ fate' = [fate EXCEPT ![j.item] = what]

\* The function of worker j raises e: the future gets the exception.
Throw(j, e, what) ==
    /\ worker' = worker \ {j}
    /\ future' = [future EXCEPT ![j.item] = [state |-> "finished", rv |-> None, exc |-> e]]
    /\ doneOrder' = Append(doneOrder, j.item)
    /\ fate' = [fate EXCEPT ![j.item] = what]

\* Worker j goes on to label at.
Goto(j, at, out, a4) ==
    /\ worker' = (worker \ {j}) \cup {[item |-> j.item, at |-> at, out |-> out, a4 |-> a4]}
    /\ UNCHANGED <<future, doneOrder, fate>>

Started(j, tool, out) ==
    cmds' = cmds \cup {[item |-> j.item, tool |-> tool, inp |-> files[j.item], out |-> out]}

InWorker(p, j, at) ==
    /\ prog = p /\ j.at = at
    /\ UNCHANGED <<mainvars, mp3vars, tdvars, files, maxworkers, pool, queue, ri, reports>>

\* tiffconv, lines 107-108: check_output starts tiffinfo.
TiffinfoStart ==
    \E j \in worker :
        /\ InWorker("tiff", j, "call")
        /\ Goto(j, "tiffinfo", <<>>, FALSE)
        /\ Started(j, "tiffinfo", <<>>)

\* tiffconv, lines 108 and 143-146: tiffinfo cannot be started.
TiffinfoStartFails ==
    \E j \in worker :
        /\ InWorker("tiff", j, "call")
        /\ Return(j, 0, "probe_oserror")
        /\ UNCHANGED cmds

\* tiffconv, lines 108-138 and 143-146: tiffinfo exits; check_output raises
\* CalledProcessError on a non-zero code, else the output is read and the
\* arguments of tiff2pdf are built.  'except Exception' turns every
\* exception into the pair (fname, 0).
TiffinfoExits ==
    \E j \in worker, rc \in {0, 1}, txt \in TiffinfoOutputs :
        /\ InWorker("tiff", j, "tiffinfo")
        /\ UNCHANGED cmds
        /\ IF rc # 0
           THEN Return(j, 0, "probe_nonzero")
           ELSE LET m == metadata(txt)
                IN IF m.exc # "none"
                   THEN Return(j, 0, "parse_error")
                   ELSE Goto(j, "args", resub(files[j.item]), ~truthy(m.val))

\* tiffconv, line 140: subprocess.call starts tiff2pdf.
Tiff2pdfStart ==
    \E j \in worker :
        /\ InWorker("tiff", j, "args")
        /\ Goto(j, "tiff2pdf", j.out, j.a4)
        /\ Started(j, "tiff2pdf", j.out)

\* tiffconv, lines 140 and 143-146: tiff2pdf cannot be started.
Tiff2pdfStartFails ==
    \E j \in worker :
        /\ InWorker("tiff", j, "args")
        /\ Return(j, 0, "start_oserror")
        /\ UNCHANGED cmds

\* tiffconv, lines 140-142: tiff2pdf exits with rv.
Tiff2pdfExits ==
    \E j \in worker, rv \in {0, 1} :
        /\ InWorker("tiff", j, "tiff2pdf")
        /\ Return(j, rv, IF rv = 0 THEN "ok" ELSE "nonzero")
        /\ UNCHANGED cmds

\* runencoder, lines 99-105: unknown extension.
VidUnknown ==
    \E j \in worker :
        /\ InWorker("vid", j, "call")
        /\ ~knownext(files[j.item])
        /\ Return(j, 0, "skipped")
        /\ UNCHANGED cmds

\* runencoder, lines 106-110: subprocess.call starts ffmpeg.
FfmpegStart ==
    \E j \in worker :
        /\ InWorker("vid", j, "call")
        /\ knownext(files[j.item])
        /\ Goto(j, "ffmpeg", ofnOf(files[j.item]), FALSE)
        /\ Started(j, "ffmpeg", ofnOf(files[j.item]))

\* runencoder, line 110: ffmpeg cannot be started; runencoder catches nothing.
FfmpegStartFails ==
    \E j \in worker :
        /\ InWorker("vid", j, "call")
        /\ knownext(files[j.item])
        /\ Throw(j, "OSError", "start_oserror")
        /\ UNCHANGED cmds

\* runencoder, lines 110-113: ffmpeg exits with rv.
FfmpegExits ==
    \E j \in worker, rv \in {0, 1} :
        /\ InWorker("vid", j, "ffmpeg")
        /\ Return(j, rv, IF rv = 0 THEN "ok" ELSE "nonzero")
        /\ UNCHANGED cmds

\* The line main writes for the pair (fn, rv) of item i.
Report(i) ==
    [item |-> i, fn |-> files[i], rv |-> future[i].rv[1],
     line |-> IF future[i].rv[1] = 0 THEN "finished" ELSE "failed"]

\* An iterator that yields the results as the items finish.
NextResultAsCompleted ==
    IF ri < Len(doneOrder) THEN doneOrder[ri + 1] ELSE ri + 1

\* The item whose result the map iterator of tifftopdf yields next.
NextResult == ri + 1

\* tifftopdf main, lines 61-65: the iterator yields the result of the next
\* future once that future has finished.
TiffResult ==
    /\ InPool("tiff", "results")
    /\ ri < Len(files)
    /\ future[NextResult].state = "finished"
    /\ reports' = Append(reports, Report(NextResult))
    /\ ri' = ri + 1
    /\ UNCHANGED <<mainvars, files, maxworkers, pool, queue, worker, future,
                   doneOrder, fate, cmds>>

\* tifftopdf main: the iterator is exhausted, the with block and main end.
TiffDone ==
    /\ InPool("tiff", "results")
    /\ ri = Len(files)
    /\ pc' = "done"
    /\ exitstatus' = Some(0)
    /\ UNCHANGED <<prog, exc, precond, poolvars>>

\* vid2mkv main, line 53: leaving the with block waits for every item.
VidShutdown ==
    /\ InPool("vid", "shutdown")
    /\ queue = <<>> /\ worker = {}
    /\ pc' = "collect"
    /\ UNCHANGED <<prog, exitstatus, exc, precond, poolvars>>

\* The failures of line 55, in the order of the items.
RECURSIVE failures(_)
failures(n) ==
    IF n = 0 THEN <<>>
    ELSE IF future[n].rv[1] # 0 THEN Append(failures(n - 1), Report(n))
    ELSE failures(n - 1)

\* vid2mkv main, line 55: the iterator re-raises the exception of a future.
VidCollectRaises ==
    /\ InPool("vid", "collect")
    /\ \E i \in 1..Len(files) : future[i].exc # "none"
    /\ Raise("OSError")
    /\ UNCHANGED <<prog, precond, poolvars>>

\* vid2mkv main, lines 55-57: the failures are printed; main ends.
VidReport ==
    /\ InPool("vid", "collect")
    /\ \A i \in 1..Len(files) : future[i].exc = "none"
    /\ reports' = failures(Len(files))
    /\ ri' = Len(files)
    /\ pc' = "done"
    /\ exitstatus' = Some(0)
    /\ UNCHANGED <<prog, exc, precond, files, maxworkers, pool, queue, worker, future,
                   doneOrder, fate, cmds>>

\* ------------------------------------------------------------------- runs

InitMp3 ==
    /\ maxprocs \in 1..MaxProcs
    /\ tracks = <<>>
    /\ ti = 0
    /\ procs = <<>>
    /\ popen = <<>>
    /\ it = 0
    /\ ret = "while"
    /\ printed = <<>>
    /\ notracks = FALSE
    /\ failedlaunch = 0
    /\ exitedatcall = {}

IdleMp3 ==
    /\ maxprocs = 1
    /\ tracks = <<>>
    /\ ti = 0
    /\ procs = <<>>
    /\ popen = <<>>
    /\ it = 0
    /\ ret = "while"
    /\ printed = <<>>
    /\ notracks = FALSE
    /\ failedlaunch = 0
    /\ exitedatcall = {}

InitPool(names) ==
    /\ files \in SeqsUpTo(names, MaxFiles) \ {<<>>}
    /\ maxworkers \in 1..MaxWorkers
    /\ pool = FALSE
    /\ queue = <<>>
    /\ worker = {}
    /\ future = [k \in 1..Len(files) |-> [state |-> "pending", rv |-> None, exc |-> "none"]]
    /\ ri = 0
    /\ reports = <<>>
    /\ doneOrder = <<>>
    /\ fate = [k \in 1..Len(files) |-> "none"]
    /\ cmds = {}

IdlePool ==
    /\ files = <<>>
    /\ maxworkers = 1
    /\ pool = FALSE
    /\ queue = <<>>
    /\ worker = {}
    /\ future = <<>>
    /\ ri = 0
    /\ reports = <<>>
    /\ doneOrder = <<>>
    /\ fate = <<>>
    /\ cmds = {}

\* trackdata is not called on its own.
IdleTrackdata ==
    /\ titelsfile = [ioerror |-> TRUE, lines |-> <<>>]
    /\ disk = {}
    /\ returned = None

Init ==
    /\ pc = "checkfor"
    /\ exitstatus = None
    /\ exc = "none"
    /\ precond = "unchecked"
    /\ IdleTrackdata
    /\ \/ prog = "mp3" /\ InitMp3 /\ IdlePool
       \/ prog = "tiff" /\ IdleMp3 /\ InitPool(TiffNames)
       \/ prog = "vid" /\ IdleMp3 /\ InitPool(VidNames)

Next ==
    \/ Mp3Checkfor
    \/ Mp3Trackdata
    \/ Mp3NoTracks
    \/ Mp3HaveTracks
    \/ Mp3For
    \/ Mp3Wait
    \/ Mp3Launch
    \/ Mp3LaunchFails
    \/ ManageprocsNext
    \/ ManageprocsReturn
    \/ Mp3Drain
    \/ Mp3Done
    \/ LameExits
    \/ TiffCheckTiffinfo
    \/ TiffCheckTiff2pdf
    \/ VidCheckFfmpeg
    \/ TiffMap
    \/ VidMap
    \/ WorkerTake
    \/ TiffinfoStart
    \/ TiffinfoStartFails
    \/ TiffinfoExits
    \/ Tiff2pdfStart
    \/ Tiff2pdfStartFails
    \/ Tiff2pdfExits
    \/ VidUnknown
    \/ FfmpegStart
    \/ FfmpegStartFails
    \/ FfmpegExits
    \/ TiffResult
    \/ TiffDone
    \/ VidShutdown
    \/ VidCollectRaises
    \/ VidReport

Spec == Init /\ [][Next]_vars

\* The main thread of make-mp3 keeps running, and every lame process that was
\* started ends.
Mp3Main ==
    \/ Mp3Checkfor \/ Mp3Trackdata \/ Mp3NoTracks \/ Mp3HaveTracks \/ Mp3For
    \/ Mp3Wait \/ Mp3Launch \/ Mp3LaunchFails \/ ManageprocsNext
    \/ ManageprocsReturn \/ Mp3Drain \/ Mp3Done

FairSpec ==
    /\ Spec
    /\ WF_vars(Mp3Main)
    /\ \A p \in 1..MaxTracks : WF_vars(LameExit(p))

\* trackdata called on its own, with any listing and any files on disk.
InitTrackdata ==
    /\ prog = "trackdata"
    /\ pc = "call"
    /\ exitstatus = None
    /\ exc = "none"
    /\ precond = "unchecked"
    /\ IdleMp3 /\ IdlePool
    /\ titelsfile \in Titels
    /\ disk \in SUBSET WavFiles
    /\ returned = None

TrackdataCall ==
    /\ prog = "trackdata" /\ pc = "call"
    /\ returned' = Some(trackdata(titelsfile, disk))
    /\ pc' = "returned"
    /\ UNCHANGED <<prog, exitstatus, exc, precond, mp3vars, poolvars, titelsfile, disk>>

NextTrackdata == TrackdataCall

SpecTrackdata == InitTrackdata /\ [][NextTrackdata]_vars

\* ----------------------------------------------------------------- claims
Items == 1..Len(files)

\* The external processes that run now in the worker threads.
RunningNow == {j \in worker : j.at \in {"tiffinfo", "tiff2pdf", "ffmpeg"}}

\* The positions of the lines main wrote for item i.
ReportsOf(i) == {k \in 1..Len(reports) : reports[k].item = i}

\* The position of x in the sequence s of distinct elements, 0 when absent.
PosIn(s, x) == IF \E k \in 1..Len(s) : s[k] = x THEN CHOOSE k \in 1..Len(s) : s[k] = x ELSE 0

\* The program has ended, by returning from main or with a traceback.
Ended == pc \in {"done", "crashed"}

\* C1: in make-mp3 the active list never holds more than maxprocs entries.
C1_ActiveWithinLimit ==
    prog = "mp3" => Len(procs) <= maxprocs

\* The active list is full at the largest limit while a track is pending.
C1_Witness ==
    /\ prog = "mp3" /\ pc = "manageprocs"
    /\ maxprocs = MaxProcs /\ Len(procs) = maxprocs
    /\ ti < Len(tracks)

\* C2: in tifftopdf and vid2mkv at most max_workers external processes run
\* at the same time, and no item has two of them (tiffinfo and tiff2pdf of
\* an item never overlap).
C2_SubprocessesWithinPool ==
    prog \in {"tiff", "vid"} =>
        /\ Cardinality(RunningNow) <= maxworkers
        /\ \A j, k \in worker : j.item = k.item => j = k

\* Every thread runs a process while an item still waits in the queue.
C2_Witness ==
    /\ prog = "tiff"
    /\ Cardinality(RunningNow) = maxworkers
    /\ queue # <<>>
    /\ \E j \in worker : j.at = "tiff2pdf"

\* C3: in make-mp3 no launched process is reported twice, and when the
\* dispatcher has ended every launched process has left the active list and
\* has been reported exactly once.
C3_ReportedExactlyOnce ==
    prog = "mp3" =>
        /\ \A p \in 1..Len(popen) : Len(printed[p]) <= 1
        /\ Ended =>
              /\ procs = <<>>
              /\ \A p \in 1..Len(popen) : Len(printed[p]) = 1

\* What holds of make-mp3 when main returns: every launched process was
\* reported once, with its exit code, although a pass of manageprocs may
\* skip an entry.
ReportedOnceAtReturn ==
    prog = "mp3" =>
        /\ \A p \in 1..Len(popen) : Len(printed[p]) <= 1
        /\ pc = "done" =>
              /\ procs = <<>>
              /\ Len(popen) = Len(tracks)
              /\ \A p \in 1..Len(popen) : popen[p] # None /\ printed[p] = popen[p]

\* C4: in make-mp3, once main has entered the for loop it reaches the state
\* where no track is pending and the active list is empty.
C4_DispatcherTerminates ==
    (prog = "mp3" /\ pc = "for") ~> (pc = "done" /\ ti = Len(tracks) /\ procs = <<>>)

\* What holds of make-mp3: main never stays in one of its loops for ever.
DispatcherEnds ==
    (prog = "mp3" /\ pc = "for") ~> Ended

\* C5: when an item has exited with a non-zero code and the program has
\* ended, every item was launched, has run to its exit and was reported with
\* its own status, the failed one with one failure line.
C5_NoCancellationCascade ==
    /\ (/\ prog = "mp3" /\ Ended
        /\ \A p \in 1..Len(popen) : popen[p] # None
        /\ \E p \in 1..Len(popen) : popen[p] = Some(1))
          => /\ Len(popen) = Len(tracks)
             /\ \A p \in 1..Len(popen) : printed[p] = popen[p]
    /\ (/\ prog = "vid" /\ Ended
        /\ \E i \in Items : fate[i] = "nonzero")
          => \A i \in Items :
                /\ fate[i] \in {"ok", "nonzero", "skipped"}
                /\ Cardinality(ReportsOf(i)) = IF fate[i] = "nonzero" THEN 1 ELSE 0

\* C6: a launch that fails (Popen in startmp3, subprocess.call in
\* runencoder) leaves no exception uncaught, and when main has ended the
\* item has a failure line with a non-zero code.
C6_LaunchFailureSurvived ==
    /\ (prog = "mp3" /\ failedlaunch > 0) => exc = "none"
    /\ prog = "vid" =>
          \A i \in Items : fate[i] = "start_oserror" =>
              /\ exc = "none"
              /\ pc = "done" => \E k \in ReportsOf(i) : reports[k].rv # 0

\* What can go wrong with the conversion of an item: a tool that cannot be
\* started, a probe that exits non-zero, output that cannot be read, a
\* converter that exits non-zero.
FailedFates == {"probe_oserror", "probe_nonzero", "parse_error", "start_oserror", "nonzero"}

\* C7: in tifftopdf an item whose conversion failed has a non-zero return
\* value in its future and is never reported with the 'finished' line.
C7_FailureNeverSuccess ==
    prog = "tiff" =>
        \A i \in Items : fate[i] \in FailedFates =>
            /\ future[i].rv # Some(0)
            /\ \A k \in ReportsOf(i) : reports[k].line = "failed"

\* C8: in tifftopdf and vid2mkv, when checkfor has found a tool missing or
\* answering with another code, the program has left with status 1, no
\* executor was created, no item was submitted and no process was started
\* for an item.
C8_PreconditionFatal ==
    (prog \in {"tiff", "vid"} /\ precond = "failed") =>
        /\ pc = "exited" /\ exitstatus = Some(1)
        /\ ~pool /\ queue = <<>> /\ worker = {} /\ cmds = {}
        /\ \A i \in Items : future[i].state = "pending"

\* The second check of tifftopdf has failed.
C8_Witness ==
    prog = "tiff" /\ precond = "failed" /\ pc = "exited"

\* make-mp3 has passed line 114 with an empty list from trackdata.
EmptyInput ==
    /\ prog = "mp3" /\ precond = "ok" /\ exc = "none"
    /\ pc \notin {"trackdata", "iftracks"}
    /\ tracks = <<>>

Reportable(i) ==
    /\ fate[i] \in {"ok", "nonzero"}
    /\ prog = "vid" => fate[i] = "nonzero"

C11_OutputDiffersFromInput ==
    \A c \in cmds : c.tool \in {"tiff2pdf", "ffmpeg"} => c.out # c.inp

\* The file arguments are pairwise distinct.
DistinctFiles == \A i, k \in Items : i # k => files[i] # files[k]

\* C12: in vid2mkv with distinct file arguments, no two ffmpeg processes
\* that run at the same time have the same output path.
C12_DistinctOutputs ==
    (prog = "vid" /\ DistinctFiles) =>
        \A j, k \in worker :
            (j # k /\ j.at = "ffmpeg" /\ k.at = "ffmpeg") => j.out # k.out

\* C13: in make-mp3 the k-th process started is the one of the k-th track
\* of the list trackdata returned: the tracks launched so far are the first
\* ti of the list, every entry of the active list carries the output name
\* of the track with the number of its process, and the active list holds
\* its entries in the order of the tracks, whatever processes have exited.
C13_LaunchInSourceOrder ==
    prog = "mp3" =>
        /\ Len(popen) = ti /\ ti <= Len(tracks)
        /\ \A k \in 1..Len(procs) :
              /\ procs[k].pr \in 1..ti
              /\ procs[k].fn = tracks[procs[k].pr].ofname
        /\ \A k, m \in 1..Len(procs) : k < m => procs[k].pr < procs[m].pr

\* The second process exited before the first and was reaped; the third
\* track took the free slot while the first process still runs.
C13_Witness ==
    /\ prog = "mp3" /\ maxprocs = 2
    /\ Len(tracks) = 3 /\ tracks[1].num # tracks[2].num
    /\ Len(popen) = 3 /\ popen[1] = None /\ popen[2] # None
    /\ Len(procs) = 2 /\ procs[1].pr = 1 /\ procs[2].pr = 3

\* The listing has the format of the docstring of trackdata: an album line,
\* an artist line, then lines that are blank or start with a track number.
WellFormed(lines) ==
    /\ Len(lines) >= 2
    /\ \A k \in 3..Len(lines) : lines[k] = <<>> \/ IsInt(lines[k][1])

\* File f is trackNN.cdda.wav for the track number num < 100.
IsWavOf(f, num) ==
    f = <<"t", "r", "a", "c", "k", Digits[(num \div 10) + 1], Digits[(num % 10) + 1],
          ".", "c", "d", "d", "a", ".", "w", "a", "v">>

\* The track lines of a well-formed listing whose input file is on disk.
ReadableLines(lines) ==
    {k \in 3..Len(lines) :
        /\ lines[k] # <<>>
        /\ \E f \in disk : IsWavOf(f, int(lines[k][1]))}

\* The n-th of them in the order of the listing.
NthReadable(lines, n) ==
    CHOOSE k \in ReadableLines(lines) :
        Cardinality({m \in ReadableLines(lines) : m < k}) = n - 1

\* C14: trackdata returns the empty list when 'titels' cannot be opened;
\* for a listing in the documented format and any set of files on disk it
\* returns one tuple per track line whose trackNN.cdda.wav is readable, in
\* the order of the listing, with the number and title of that line and the
\* artist and album of the header, and no tuple for any other line.
C14_ReadableTracksInOrder ==
    (prog = "trackdata" /\ pc = "returned") =>
        LET r == returned[1]
            lines == titelsfile.lines
        IN IF titelsfile.ioerror
           THEN r = Returns(<<>>)
           ELSE WellFormed(lines) =>
                   /\ r.exc = "none"
                   /\ Len(r.val) = Cardinality(ReadableLines(lines))
                   /\ \A n \in 1..Len(r.val) :
                         LET words == lines[NthReadable(lines, n)]
                         IN /\ r.val[n].num = int(words[1])
                            /\ r.val[n].title = Tail(words)
                            /\ r.val[n].album = lines[1]
                            /\ r.val[n].artist = lines[2]
                            /\ IsWavOf(r.val[n].ifname, r.val[n].num)

\* Three track lines, the file of the first and third on disk and that of
\* the second missing: two tuples are returned.
C14_Witness ==
    /\ prog = "trackdata" /\ pc = "returned"
    /\ ~titelsfile.ioerror /\ WellFormed(titelsfile.lines)
    /\ Len(titelsfile.lines) = 5
    /\ ReadableLines(titelsfile.lines) = {3, 5}
    /\ titelsfile.lines[4] # <<>>
    /\ Len(returned[1].val) = 2

\* The extension of file argument i, in lower case, is one the program is
\* meant for: the known list of vid2mkv, .tif and .tiff for tifftopdf.
Recognized(i) ==
    IF prog = "vid" THEN knownext(files[i])
    ELSE lower(splitext(files[i])[2]) \in {<<".", "t", "i", "f">>, <<".", "t", "i", "f", "f">>}

\* What C15 says of the programs in prog: no process is started and no
\* failure is reported for an argument with an unrecognized extension, and
\* an argument with a recognized one is never skipped.
UnknownSkipped ==
    \A i \in Items :
        IF Recognized(i)
        THEN fate[i] # "skipped"
        ELSE /\ \A c \in cmds : c.item # i
             /\ \A k \in ReportsOf(i) : reports[k].line # "failed"

\* C15: in vid2mkv and in tifftopdf a file argument whose extension is not
\* recognized (in any letter case) never has a process started for it and
\* is never reported as failed, and one whose extension is recognized is
\* not skipped.
C15_UnknownExtensionSkipped ==
    prog \in {"vid", "tiff"} => UnknownSkipped

\* What holds: vid2mkv skips exactly the arguments with an unknown
\* extension, and starts ffmpeg for no other.
VidUnknownSkipped ==
    prog = "vid" =>
        /\ UnknownSkipped
        /\ \A i \in Items :
              /\ fate[i] = "skipped" <=> (future[i].state = "finished" /\ ~Recognized(i))
              /\ fate[i] \in {"ok", "nonzero"} => \E c \in cmds : c.item = i /\ c.tool = "ffmpeg"

\* C16: when the loop of a call of manageprocs is exhausted, every entry
\* whose process had exited when the call began has left the active list
\* and its exit code has been printed.
C16_PassReapsAllExited ==
    (prog = "mp3" /\ pc = "manageprocs" /\ it >= Len(procs)) =>
        \A p \in exitedatcall :
            /\ \A k \in 1..Len(procs) : procs[k].pr # p
            /\ printed[p] = popen[p]

Pending(p) == p > Len(popen)
Launched(p) == \E k \in 1..Len(procs) : procs[k].pr = p
Completed(p) == p <= Len(popen) /\ printed[p] # <<>>

\* C18: in make-mp3 every track is in exactly one of the stages Pending,
\* Launched and Completed; it has at most one entry in the active list and
\* at most one printed outcome, which is the exit code of its process, so
\* it is not reported before the process has exited; and a step moves a
\* track only from Pending to Launched or from Launched to Completed.
C18_ForwardOnlyLifecycle ==
    /\ [](prog = "mp3" =>
            \A p \in 1..Len(tracks) :
                /\ Pending(p) \/ Launched(p) \/ Completed(p)
                /\ ~(Pending(p) /\ Launched(p))
                /\ ~(Pending(p) /\ Completed(p))
                /\ ~(Launched(p) /\ Completed(p))
                /\ Cardinality({k \in 1..Len(procs) : procs[k].pr = p}) <= 1
                /\ Completed(p) => (popen[p] # None /\ printed[p] = popen[p]))
    /\ [][prog = "mp3" =>
            \A p \in 1..Len(tracks) :
                /\ Pending(p) => (Pending(p)' \/ Launched(p)')
                /\ Launched(p) => (Launched(p)' \/ Completed(p)')
                /\ Completed(p) => Completed(p)'
       ]_vars

\* The first track is completed, the second is in the active list and the
\* third is pending.
C18_Witness ==
    /\ prog = "mp3" /\ Len(tracks) = 3
    /\ Completed(1) /\ Launched(2) /\ Pending(3)

====
